---- MODULE Spec2Model ----
(***************************************************************************)
(* Model of citus_cloud_mgmt.CitusCloudMgmt: the encrypted cookie cache    *)
(* (_secret_box, _load_cookies, _save_cookies), the authenticated request  *)
(* loop (_request) with its sign-in flow, and the public operations        *)
(* (login, list_roles, create_role, delete_role, get_role_credentials).    *)
(*                                                                         *)
(* One client process at a time runs against one cookie file.  The HTTP    *)
(* server is the environment: each HTTP exchange of _request is one        *)
(* action whose response is drawn from Responses(url).  The libraries      *)
(* (requests, nacl, pickle, atomicwrites) are modelled by their contract:  *)
(* the key derivation is injective in (secret bytes, salt), the secret box *)
(* is an authenticated cipher, atomic_write is temp file + rename.         *)
(***************************************************************************)
EXTENDS Integers, Sequences, FiniteSets, TLC

VARIABLES
    proc,          \* "down": no client process; "up": a constructed client;
                   \* "failed": __init__ raised
    password,      \* self.password     (sequence of characters)
    totp_secret,   \* self.totp_secret  (sequence of characters)
    cookies_path,  \* self.cookies_path (None or prefix + user)
    cookies,       \* self._session.cookies
    file,          \* the file at cookies_path: [exists, data]
    tmp,           \* the temporary file of atomic_write: [exists, data]
    pc,            \* position of the client inside _request
    req,           \* the arguments of the current _request call
    r,             \* the local variable r of _request
    xblob,         \* the local variable xblob of _save_cookies
    ret,           \* the response _request returned
    err,           \* the exception that left __init__ or _request
    log,           \* history: HTTP exchanges and cookie-file writes of the
                   \* current client, in order
    saved,         \* history: credentials, jar and blob of the last
                   \* completed _save_cookies
    flips,         \* number of bytes of the cookie file flipped from outside
    logged_in,     \* self.logged_in
    operation      \* the public operation in progress: its name, its
                   \* argument, its position, its local auth_token, the
                   \* content it read from the response, its result and
                   \* the exception that left it

vars == <<proc, password, totp_secret, cookies_path, cookies, file, tmp, pc,
          req, r, xblob, ret, err, log, saved, flips, logged_in, operation>>

---------------------------------------------------------------------------
(* Bounds of the model *)

\* sign-in flows inside one call of _request (its loop has no bound)
MaxSignIns == 2
\* bytes flipped in the cookie file by the environment
MaxFlips == 1
\* _PWHASH.SALTBYTES, scaled down (32 in libsodium's scrypt)
SALTBYTES == 1

\* most children of the body of a credentials page
MaxChildren == 2

\* cookie names and cookie values, as byte codes
Names == {11}
Values == {1, 2}
Bytes == {0, 1}

\* Two passwords and two TOTP secrets, chosen so that two different pairs
\* have the same concatenation: "a"+"bc" = "ab"+"c".
Passwords == {<<1>>, <<1, 2>>}
TotpSecrets == {<<3>>, <<2, 3>>}

---------------------------------------------------------------------------
(* URLs: a URL is the sequence of its parts *)

citus_console_url(path) == <<"https://console.citusdata.com/", path>>

SIGNIN_URL == citus_console_url("users/sign_in")
FORMATIONS_URL == citus_console_url("formations")

\* str.startswith
startswith(s, prefix) ==
    /\ Len(s) >= Len(prefix)
    /\ SubSeq(s, 1, Len(prefix)) = prefix

---------------------------------------------------------------------------
(* Cookie jars and their serialisation *)

\* a cookie jar maps cookie names to values
Jars == UNION {[d -> Values] : d \in SUBSET Names}

EmptyJar == [n \in {} |-> 0]

\* RequestsCookieJar.update(other): the cookies of other are set in jar
jar_update(jar, other) ==
    [n \in (DOMAIN jar) \cup (DOMAIN other) |->
        IF n \in DOMAIN other THEN other[n] ELSE jar[n]]

\* pickle.dumps of a jar: the (name, value) pairs laid out in one byte
\* string, in the order of the names
RECURSIVE dumps_from(_, _)
dumps_from(jar, names) ==
    IF names = {}
    THEN <<>>
    ELSE LET n == CHOOSE m \in names : \A k \in names : m <= k
         IN  <<n, jar[n]>> \o dumps_from(jar, names \ {n})

pickle_dumps(jar) == dumps_from(jar, DOMAIN jar)

\* mutant: name and value are read in the wrong order
pickle_loads_swapped(blob) ==
    [n \in {blob[2 * i] : i \in 1..(Len(blob) \div 2)} |->
        blob[2 * (CHOOSE i \in 1..(Len(blob) \div 2) : blob[2 * i] = n) - 1]]

\* pickle.loads: reads the pairs back
pickle_loads(blob) ==
    [n \in {blob[2 * i - 1] : i \in 1..(Len(blob) \div 2)} |->
        blob[2 * (CHOOSE i \in 1..(Len(blob) \div 2) : blob[2 * i - 1] = n)]]

---------------------------------------------------------------------------
(* Key derivation and the secret box.  A byte of the file is a cell        *)
(* [key, v, x]: key is the key the cell was produced under (NoKey for a    *)
(* salt byte), v its content, x = 1 when the byte has been flipped.        *)

NoKey == [secret |-> <<>>, salt |-> <<>>]

SaltCell(b) == [key |-> NoKey, v |-> <<b>>, x |-> 0]

\* nacl.utils.random(SALTBYTES): every salt it can return
Salts == {[i \in 1..SALTBYTES |-> SaltCell(f[i])] : f \in [1..SALTBYTES -> Bytes]}

\* the salts whose bytes are all the same
UniformSalts == {salt \in Salts : \A i \in 1..Len(salt) : salt[i] = salt[1]}

\* the byte values of a salt read from a file
SaltBytes(salt) == [i \in 1..Len(salt) |-> (salt[i].v[1] + salt[i].x) % 2]

\* _PWHASH.kdf on password + totp_secret and the salt: deterministic, and
\* different inputs give different keys
kdf(secret, salt) == [secret |-> secret, salt |-> SaltBytes(salt)]

\* b''.join(i.encode() for i in [self.password, self.totp_secret])
JoinSecret(pw, totp) == pw \o totp

\* self._secret_box(salt): the key of the box
secret_box(pw, totp, salt) == kdf(JoinSecret(pw, totp), salt)

\* SecretBox.encrypt: an authenticator over the whole message, then the
\* message bytes, all under the key
encrypt(key, blob) ==
    <<[key |-> key, v |-> blob, x |-> 0]>>
    \o [i \in 1..Len(blob) |-> [key |-> key, v |-> <<blob[i]>>, x |-> 0]]

\* SecretBox.decrypt: the message when the ciphertext verifies under the
\* key, CryptoError otherwise
Verifies(key, ct) == Len(ct) >= 1 /\ ct = encrypt(key, ct[1].v)

decrypt(key, ct) ==
    IF Verifies(key, ct)
    THEN [ok |-> TRUE, blob |-> ct[1].v]
    ELSE [ok |-> FALSE, blob |-> <<>>]

\* one byte of the file flipped
FlipByte(data, i) == [data EXCEPT ![i].x = 1 - @]

---------------------------------------------------------------------------
(* Values of the state *)

None == <<>>

\* pathlib.Path(cookies_path_prefix + user)
CookiesPath == <<"prefix", "user">>

NoFile == [exists |-> FALSE, data |-> <<>>]

NoMeta == "none"
Tokens == {"t1", "t2"}

NoResponse ==
    [url |-> <<>>, status |-> 0, form |-> FALSE, widget |-> FALSE,
     meta |-> NoMeta]

\* headers of a request: Accept and X-CSRF-Token, "" when not passed
NoHeaders == [accept |-> "", csrf |-> ""]

NoRequest ==
    [method |-> "", url |-> <<>>, headers |-> NoHeaders, params |-> None,
     json |-> None]

\* the arguments of _request(method, path, headers=, params=, json=); no
\* operation passes params
Request(method, path, headers, json) ==
    [method |-> method, url |-> citus_console_url(path), headers |-> headers,
     params |-> None, json |-> json]

NoError == [kind |-> "none", msg |-> "", url |-> <<>>]

Error(kind, msg, url) == [kind |-> kind, msg |-> msg, url |-> url]

NoSaved ==
    [done |-> FALSE, password |-> <<>>, totp_secret |-> <<>>,
     jar |-> EmptyJar, xblob |-> <<>>]

\* the requests the public operations pass to _request
Requests ==
    {Request("get", "formations", NoHeaders, None),
     Request("post", "formations/f1/roles",
             [accept |-> "application/json", csrf |-> "t1"],
             <<"role_name", "alice">>)}

OTHER_URL == citus_console_url("maintenance")

\* the final URLs a response of the server can carry
FinalUrls(url) ==
    {url, SIGNIN_URL, SIGNIN_URL \o <<"?", "step=otp">>, FORMATIONS_URL, OTHER_URL}

Statuses == {200, 503}

\* every response of the server inside a call of _request for url, to the
\* request itself and to the sign-in POSTs: the final URL, the status and
\* what the HTML body holds (the sign-in form, the two-factor
\* widget, the csrf-token meta tag)
Responses(url) ==
    [url : FinalUrls(url), status : Statuses, form : BOOLEAN, widget : BOOLEAN,
     meta : Tokens \cup {NoMeta}]

\* the responses of a server that answers the request in session
DirectResponses(url) ==
    {resp \in Responses(url) :
        resp.url = url /\ resp.status = 200 /\ ~resp.form /\ ~resp.widget}

\* the responses of a server whose error pages hold nothing the client
\* looks for (it raises on the status before it reads the body)
Served(url) ==
    {resp \in Responses(url) :
        resp.status >= 400 =>
            (~resp.form /\ ~resp.widget /\ resp.meta = NoMeta)}

\* the responses of a server that hands out one csrf token only
OneToken(url) == {resp \in Served(url) : resp.meta \in {NoMeta, "t1"}}

\* an entry of the history: one HTTP exchange, or one write of the file
\* (for the original request: with the arguments that were sent)
Exchange(kind, sent, resp) ==
    [op |-> kind, sent |-> sent, url |-> resp.url, status |-> resp.status]

WriteEvent == [op |-> "write", sent |-> NoRequest, url |-> <<>>, status |-> 0]

\* no public operation in progress
\* a JSON value: its type and, for a string, the string
JsonStr(str) == [t |-> "str", v |-> str]
JsonInt == [t |-> "int", v |-> "7"]
NoJson == [id |-> [t |-> "", v |-> ""], name |-> [t |-> "", v |-> ""]]

\* the names and the ids of roles
RoleNames == {"alice"}
RoleIds == {"r1"}

\* the JSON bodies the server answers a role creation with
JsonBodies ==
    [id : {JsonStr("conflict"), JsonStr("r1"), JsonInt},
     name : {JsonStr("alice"), JsonStr("bob")}]

\* the characters of a page text
SPACE == " "
Texts == {<<"x">>, <<SPACE, "x", SPACE, "y", SPACE>>, <<SPACE>>}

\* a child of the body element: a text, a comment or a tag
Children ==
    [kind : {"text"}, s : Texts] \cup [kind : {"comment"}, s : {<<"x">>}]
        \cup [kind : {"tag"}, s : {<<>>}]

\* soup.find("body") of a page: None, or the element with its children
NoBody == [found |-> FALSE, contents |-> <<>>]

Contents(n) == UNION {[1..k -> Children] : k \in 0..n}

Bodies == {NoBody} \cup [found : {TRUE}, contents : Contents(MaxChildren)]

\* no public operation in progress
NoOp ==
    [name |-> "", arg |-> "", stage |-> "idle", token |-> NoMeta,
     json |-> NoJson, body |-> NoBody, result |-> None, err |-> NoError]

---------------------------------------------------------------------------
(* Conditions of the code *)

\* mutant: the request sent again after a sign-in goes out without headers
request_args_bare(rq) ==
    IF log = <<>> THEN rq ELSE [rq EXCEPT !.headers = NoHeaders]

\* self._session.request(method, url, headers=headers, params=params,
\* json=json): what goes out is what _request was called with
request_args(rq) == rq

\* mutant: the status is never looked at
raise_for_status_never(resp) == FALSE

\* Response.raise_for_status raises
raise_for_status(resp) == resp.status >= 400 /\ resp.status < 600

\* if r.url == url
InSession(resp, url) == resp.url = url

\* mutant: startswith instead of ==
AtSignIn_prefix(resp) == startswith(resp.url, SIGNIN_URL)

\* if r.url == SIGNIN_URL
AtSignIn(resp) == resp.url = SIGNIN_URL

\* assert form
HasForm(resp) == resp.form

\* mutant: the URL after the credentials POST is not looked at
AtTwoFactor_any(resp) == TRUE

\* r.url.startswith(SIGNIN_URL + "?")
AtTwoFactor(resp) == startswith(resp.url, SIGNIN_URL \o <<"?">>)

\* mutant: the widget is not asserted
HasWidget_unchecked(resp) == TRUE

\* assert soup.find("div", {"data-react-class": "TwoFAWidget"})
HasWidget(resp) == resp.widget

\* mutant: a page without the meta tag passes
HasMeta_unchecked(resp) == TRUE

\* soup.find("meta", {"name": "csrf-token"}) is not None
HasMeta(resp) == resp.meta # NoMeta

\* mutant: only the formations URL counts as signed in
SignedIn_formations_only(resp, url) == resp.url = FORMATIONS_URL

\* if r.url == FORMATIONS_URL or r.url == url
SignedIn(resp, url) == resp.url = FORMATIONS_URL \/ resp.url = url

\* mutant: the cookies are saved and r returned right after the sign-in
AfterSignIn_save == "save"

\* mutant: the sign-in is run again right after the sign-in
AfterSignIn_again == "credentials"

\* after a successful sign-in: continue, the loop sends the request again
AfterSignIn == "loop"

\* mutant: the path is used without the test
HasPath_always(path) == TRUE

\* mutant: the test is inverted
HasPath_inverted(path) == path = None

\* if self.cookies_path (in _load_cookies and in _save_cookies)
HasPath(path) == path # None

\* the client was constructed with a cookies path prefix
HasPathSet == cookies_path = CookiesPath

---------------------------------------------------------------------------
(* The cookie cache *)

Min(a, b) == IF a < b THEN a ELSE b

\* mutant: a file that does not decrypt is taken for no file
load_cookies_lenient(pw, totp, path, f) ==
    IF HasPath(path) /\ f.exists
    THEN LET xb == f.data
             salt == SubSeq(xb, 1, Min(SALTBYTES, Len(xb)))
             box == secret_box(pw, totp, salt)
             plain == decrypt(box, SubSeq(xb, SALTBYTES + 1, Len(xb)))
         IN  IF Len(salt) = SALTBYTES /\ plain.ok
             THEN [err |-> NoError,
                   jar |-> jar_update(EmptyJar, pickle_loads(plain.blob))]
             ELSE [err |-> NoError, jar |-> EmptyJar]
    ELSE [err |-> NoError, jar |-> EmptyJar]

\* _load_cookies on a fresh session: the error it raises and the jar of the
\* session afterwards
load_cookies(pw, totp, path, f) ==
    IF HasPath(path) /\ f.exists
    THEN LET xb == f.data
             salt == SubSeq(xb, 1, Min(SALTBYTES, Len(xb)))
         IN  IF Len(salt) # SALTBYTES
             THEN [err |-> Error("AssertionError", "len(salt)", <<>>),
                   jar |-> EmptyJar]
             ELSE LET box == secret_box(pw, totp, salt)
                      plain == decrypt(box, SubSeq(xb, SALTBYTES + 1, Len(xb)))
                  IN  IF ~plain.ok
                      THEN [err |-> Error("CryptoError", "decrypt", <<>>),
                            jar |-> EmptyJar]
                      ELSE [err |-> NoError,
                            jar |-> jar_update(EmptyJar, pickle_loads(plain.blob))]
    ELSE [err |-> NoError, jar |-> EmptyJar]

\* salt + box.encrypt(blob) of _save_cookies
make_xblob(pw, totp, jar, salt) ==
    salt \o encrypt(secret_box(pw, totp, salt), pickle_dumps(jar))

\* mutant: open(cookies_path, "wb") and write in place
write_cell_inplace(f, t, cell) ==
    [file |-> [exists |-> TRUE, data |-> Append(t.data, cell)],
     tmp |-> [exists |-> TRUE, data |-> Append(t.data, cell)]]

\* f.write inside atomic_write: the bytes go to the temporary file
write_cell(f, t, cell) ==
    [file |-> f, tmp |-> [exists |-> TRUE, data |-> Append(t.data, cell)]]

\* __init__: a new process constructs the client and loads the cookies
Construct(pw, totp, path) ==
    /\ proc = "down"
    /\ LET loaded == load_cookies(pw, totp, path, file)
       IN  /\ proc' = IF loaded.err = NoError THEN "up" ELSE "failed"
           /\ err' = loaded.err
           /\ cookies' = loaded.jar
    /\ password' = pw
    /\ totp_secret' = totp
    /\ cookies_path' = path
    /\ pc' = "idle"
    /\ req' = NoRequest
    /\ r' = NoResponse
    /\ ret' = NoResponse
    /\ xblob' = <<>>
    /\ log' = <<>>
    /\ logged_in' = FALSE
    /\ operation' = NoOp
    /\ UNCHANGED <<file, tmp, saved, flips>>

\* the process ends: the operation finished, an exception left __init__ or
\* the operation, or the process was killed at this point
Exit ==
    /\ proc \in {"up", "failed"}
    /\ proc' = "down"
    /\ pc' = "idle"
    /\ req' = NoRequest
    /\ r' = NoResponse
    /\ ret' = NoResponse
    /\ err' = NoError
    /\ xblob' = <<>>
    /\ log' = <<>>
    /\ cookies' = EmptyJar
    /\ password' = <<>>
    /\ totp_secret' = <<>>
    /\ cookies_path' = None
    /\ tmp' = NoFile
    /\ logged_in' = FALSE
    /\ operation' = NoOp
    /\ UNCHANGED <<file, saved, flips>>

\* outside the program: one byte of the cookie file is flipped
Tamper(i) ==
    /\ proc = "down"
    /\ flips < MaxFlips
    /\ file.exists
    /\ i \in 1..Len(file.data)
    /\ file' = [file EXCEPT !.data = FlipByte(@, i)]
    /\ flips' = flips + 1
    /\ UNCHANGED <<proc, password, totp_secret, cookies_path, cookies, tmp, pc,
                   req, r, xblob, ret, err, log, saved, logged_in, operation>>

---------------------------------------------------------------------------
(* _request *)

\* an exception leaves _request
Raise(e) ==
    /\ pc' = "raised"
    /\ err' = e
    /\ UNCHANGED <<proc, password, totp_secret, cookies_path, file, tmp, req,
                   xblob, ret, saved, flips, logged_in, operation>>

\* _request goes on to its next HTTP exchange, or to _save_cookies
Goto(next) ==
    /\ pc' = next
    /\ UNCHANGED <<proc, password, totp_secret, cookies_path, file, tmp, req,
                   xblob, ret, err, saved, flips, logged_in, operation>>

\* entering _request(method, path, ...)
Call(request) ==
    /\ proc = "up"
    /\ pc \in {"idle", "returned"}
    /\ req' = request
    /\ pc' = "loop"
    /\ r' = NoResponse
    /\ ret' = NoResponse
    /\ log' = <<>>
    /\ UNCHANGED <<proc, password, totp_secret, cookies_path, cookies, file,
                   tmp, xblob, err, saved, flips, logged_in>>

\* some caller calls _request(method, path)
RequestCall(request) ==
    /\ Call(request)
    /\ UNCHANGED operation

\* number of sign-in flows started in the history
SignIns == Cardinality({i \in 1..Len(log) : log[i].op = "credentials"})

\* r = self._session.request(method, url, ...) and the branch on r.url
SendRequest(resp, setc) ==
    /\ proc = "up"
    /\ pc = "loop"
    /\ resp \in Responses(req.url)
    /\ setc \in Jars
    /\ r' = resp
    /\ cookies' = jar_update(cookies, setc)
    /\ log' = Append(log, Exchange("request", request_args(req), resp))
    /\ IF raise_for_status(resp)
       THEN Raise(Error("HTTPError", "status", resp.url))
       ELSE IF InSession(resp, req.url)
       THEN Goto("save")
       ELSE IF AtSignIn(resp)
       THEN IF HasForm(resp)
            THEN SignIns < MaxSignIns /\ Goto("credentials")
            ELSE Raise(Error("AssertionError", "form", <<>>))
       ELSE Raise(Error("RuntimeError", "Unexpected redirect to", resp.url))

\* r = self._session.post(SIGNIN_URL, params=signin_params), credentials
PostCredentials(resp, setc) ==
    /\ proc = "up"
    /\ pc = "credentials"
    /\ resp \in Responses(req.url)
    /\ setc \in Jars
    /\ r' = resp
    /\ cookies' = jar_update(cookies, setc)
    /\ log' = Append(log, Exchange("credentials", NoRequest, resp))
    /\ IF raise_for_status(resp)
       THEN Raise(Error("HTTPError", "status", resp.url))
       ELSE IF ~AtTwoFactor(resp)
       THEN Raise(Error("RuntimeError",
                        "Unexpected redirect from sign-in #1 to", resp.url))
       ELSE IF ~HasWidget(resp)
       THEN Raise(Error("AssertionError", "TwoFAWidget", <<>>))
       ELSE IF ~HasMeta(resp)
       THEN Raise(Error("AttributeError", "attrs", <<>>))
       ELSE Goto("otp")

\* r = self._session.post(SIGNIN_URL, params=signin_params), OTP
PostOtp(resp, setc) ==
    /\ proc = "up"
    /\ pc = "otp"
    /\ resp \in Responses(req.url)
    /\ setc \in Jars
    /\ r' = resp
    /\ cookies' = jar_update(cookies, setc)
    /\ log' = Append(log, Exchange("otp", NoRequest, resp))
    /\ IF raise_for_status(resp)
       THEN Raise(Error("HTTPError", "status", resp.url))
       ELSE IF SignedIn(resp, req.url)
       THEN Goto(AfterSignIn)
       ELSE Raise(Error("RuntimeError",
                        "Unexpected redirect from sign-in #2 to", resp.url))

\* _save_cookies up to the opening of the temporary file; without a
\* cookies path it does nothing and _request returns r
SaveBegin(salt) ==
    /\ proc = "up"
    /\ pc = "save"
    /\ salt \in Salts
    /\ IF HasPath(cookies_path)
       THEN /\ xblob' = make_xblob(password, totp_secret, cookies, salt)
            /\ tmp' = [exists |-> TRUE, data |-> <<>>]
            /\ pc' = "write"
            /\ UNCHANGED ret
       ELSE /\ pc' = "returned"
            /\ ret' = r
            /\ UNCHANGED <<xblob, tmp>>
    /\ UNCHANGED <<proc, password, totp_secret, cookies_path, cookies, file,
                   req, r, err, log, saved, flips, logged_in, operation>>

\* f.write(xblob), byte by byte
SaveWrite ==
    /\ proc = "up"
    /\ pc = "write"
    /\ Len(tmp.data) < Len(xblob)
    /\ LET w == write_cell(file, tmp, xblob[Len(tmp.data) + 1])
       IN  file' = w.file /\ tmp' = w.tmp
    /\ UNCHANGED <<proc, password, totp_secret, cookies_path, cookies, pc, req,
                   r, xblob, ret, err, log, saved, flips, logged_in, operation>>

\* leaving atomic_write: the temporary file is renamed to cookies_path;
\* then _request returns r
SaveCommit ==
    /\ proc = "up"
    /\ pc = "write"
    /\ Len(tmp.data) = Len(xblob)
    /\ file' = [exists |-> TRUE, data |-> tmp.data]
    /\ tmp' = NoFile
    /\ saved' = [done |-> TRUE, password |-> password,
                 totp_secret |-> totp_secret, jar |-> cookies,
                 xblob |-> xblob]
    /\ log' = Append(log, WriteEvent)
    /\ pc' = "returned"
    /\ ret' = r
    /\ UNCHANGED <<proc, password, totp_secret, cookies_path, cookies, req, r,
                   xblob, err, flips, logged_in, operation>>

---------------------------------------------------------------------------
(* The public operations *)

\* f"formations/{formation}" and the paths below it, for the formation f1
formation_path == "formations/f1"
roles_path == "formations/f1/roles"
role_path(id_) == IF id_ = "r1" THEN "formations/f1/roles/r1" ELSE ""
credentials_path(id_) ==
    IF id_ = "r1" THEN "formations/f1/roles/r1/credentials" ELSE ""

\* the _request call of _get_csrf_token(path)
csrf_token_request(path) ==
    Request("get", path, [accept |-> "text/html", csrf |-> ""], None)

\* mutant: the header carries the first token the server ever handed out
csrf_header_stale(auth_token) == "t1"

\* "X-CSRF-Token": auth_token
csrf_header(auth_token) == auth_token

\* the _request call an operation makes once _get_csrf_token has returned
second_request(name, arg, auth_token) ==
    CASE name = "list_roles" ->
            Request("get", formation_path,
                    [accept |-> "application/json", csrf |-> ""], None)
      [] name = "create_role" ->
            Request("post", roles_path,
                    [accept |-> "application/json",
                     csrf |-> csrf_header(auth_token)],
                    <<"role_name", arg>>)
      [] name = "delete_role" ->
            Request("delete", role_path(arg),
                    [accept |-> "", csrf |-> csrf_header(auth_token)], None)

\* mutant: a successful login sets the flag
logged_in_after_login_set(flag) == TRUE

\* login() calls _request and assigns nothing
logged_in_after_login(flag) == flag

\* mutant: the id is not compared with "conflict"
create_role_result_any_id(data, name) ==
    IF data.id.t # "str"
    THEN [err |-> Error("AssertionError", "isinstance", <<>>), result |-> None]
    ELSE IF data.name # JsonStr(name)
    THEN [err |-> Error("AssertionError", "name", <<>>), result |-> None]
    ELSE [err |-> NoError, result |-> <<data.id.v>>]

\* the result of create_role for the JSON body data, or the exception
create_role_result(data, name) ==
    IF data.id.t # "str"
    THEN [err |-> Error("AssertionError", "isinstance", <<>>), result |-> None]
    ELSE IF data.id.v = "conflict"
    THEN [err |-> Error("RuntimeError", "already exists", <<>>), result |-> None]
    ELSE IF data.name # JsonStr(name)
    THEN [err |-> Error("AssertionError", "name", <<>>), result |-> None]
    ELSE [err |-> NoError, result |-> <<data.id.v>>]

\* str.strip()
RECURSIVE lstrip(_)
lstrip(str) ==
    IF str # <<>> /\ Head(str) = SPACE THEN lstrip(Tail(str)) ELSE str

RECURSIVE rstrip(_)
rstrip(str) ==
    IF str # <<>> /\ str[Len(str)] = SPACE
    THEN rstrip(SubSeq(str, 1, Len(str) - 1))
    ELSE str

strip(str) == rstrip(lstrip(str))

\* isinstance(child, bs4.element.NavigableString): Comment is a subclass of
\* NavigableString, Tag is not
isinstance_NavigableString(child) == child.kind \in {"text", "comment"}

\* the result of get_role_credentials for the body of the page, or the
\* exception
get_role_credentials_result(body) ==
    IF ~body.found
    THEN [err |-> Error("AssertionError", "body", <<>>), result |-> None]
    ELSE IF Len(body.contents) # 1
    THEN [err |-> Error("AssertionError", "len(body.contents)", <<>>),
          result |-> None]
    ELSE IF ~isinstance_NavigableString(body.contents[1])
    THEN [err |-> Error("AssertionError", "isinstance", <<>>), result |-> None]
    ELSE [err |-> NoError, result |-> strip(body.contents[1].s)]

\* a public operation starts with its first call of _request
Start(name, arg, stage, request) ==
    /\ operation.stage \in {"idle", "done"}
    /\ operation' = [NoOp EXCEPT !.name = name, !.arg = arg, !.stage = stage]
    /\ Call(request)

login == Start("login", "", "main", Request("get", "formations", NoHeaders, None))

list_roles == Start("list_roles", "", "csrf", csrf_token_request(formation_path))

create_role(name) ==
    Start("create_role", name, "csrf", csrf_token_request(roles_path))

delete_role(id_) ==
    Start("delete_role", id_, "csrf", csrf_token_request(formation_path))

get_role_credentials(id_) ==
    Start("get_role_credentials", id_, "main",
          Request("get", credentials_path(id_), NoHeaders, None))

\* _get_csrf_token reads the token from the page _request returned; the
\* operation goes on with its second call of _request
get_csrf_token_return ==
    /\ proc = "up"
    /\ pc = "returned"
    /\ operation.stage = "csrf"
    /\ IF ~HasMeta(ret)
       THEN /\ operation' = [operation EXCEPT
                                !.stage = "failed",
                                !.err = Error("AttributeError", "attrs", <<>>)]
            /\ UNCHANGED <<proc, password, totp_secret, cookies_path, cookies,
                           file, tmp, pc, req, r, xblob, ret, err, log, saved,
                           flips, logged_in>>
       ELSE /\ operation' = [operation EXCEPT
                                !.stage = "main",
                                !.token = IF operation.name = "list_roles"
                                          THEN NoMeta ELSE ret.meta]
            /\ Call(second_request(operation.name, operation.arg, ret.meta))

\* the last call of _request of the operation has returned: the operation
\* returns its result or raises
Finish(name, data, body, outcome, flag) ==
    /\ proc = "up"
    /\ pc = "returned"
    /\ operation.name = name
    /\ operation.stage = "main"
    /\ operation' = [operation EXCEPT
                        !.stage = IF outcome.err = NoError
                                  THEN "done" ELSE "failed",
                        !.json = data,
                        !.body = body,
                        !.err = outcome.err,
                        !.result = outcome.result]
    /\ logged_in' = flag
    /\ UNCHANGED <<proc, password, totp_secret, cookies_path, cookies, file,
                   tmp, pc, req, r, xblob, ret, err, log, saved, flips>>

Returned == [err |-> NoError, result |-> None]

login_return ==
    Finish("login", NoJson, NoBody, Returned, logged_in_after_login(logged_in))

\* list_roles returns the roles of r.json() (their content is left out)
list_roles_return == Finish("list_roles", NoJson, NoBody, Returned, logged_in)

\* data = r.json() and what create_role does with it
create_role_return(data) ==
    Finish("create_role", data, NoBody,
           create_role_result(data, operation.arg), logged_in)

delete_role_return == Finish("delete_role", NoJson, NoBody, Returned, logged_in)

\* body = soup.find("body") and what get_role_credentials does with it
get_role_credentials_return(body) ==
    Finish("get_role_credentials", NoJson, body,
           get_role_credentials_result(body), logged_in)

---------------------------------------------------------------------------
(* The specification *)

Init ==
    /\ proc = "down"
    /\ password = <<>>
    /\ totp_secret = <<>>
    /\ cookies_path = None
    /\ cookies = EmptyJar
    /\ file = NoFile
    /\ tmp = NoFile
    /\ pc = "idle"
    /\ req = NoRequest
    /\ r = NoResponse
    /\ xblob = <<>>
    /\ ret = NoResponse
    /\ err = NoError
    /\ log = <<>>
    /\ saved = NoSaved
    /\ flips = 0
    /\ logged_in = FALSE
    /\ operation = NoOp

\* the credentials of the user of Spec
UserPassword == <<1>>
UserTotp == <<3>>

\* one user, any server
Next ==
    \/ \E path \in {None, CookiesPath} : Construct(UserPassword, UserTotp, path)
    \/ Exit
    \/ \E request \in Requests : RequestCall(request)
    \/ \E resp \in OneToken(req.url), setc \in Jars : SendRequest(resp, setc)
    \/ \E resp \in OneToken(req.url), setc \in Jars : PostCredentials(resp, setc)
    \/ \E resp \in OneToken(req.url), setc \in Jars : PostOtp(resp, setc)
    \/ \E salt \in UniformSalts : SaveBegin(salt)
    \/ SaveWrite
    \/ SaveCommit

Spec == Init /\ [][Next]_vars

\* the client is sequential and every HTTP call and file operation blocks
\* until it is done: a server that answers and a file system that works
\* let every step of _request that can be taken be taken
Fairness ==
    /\ WF_vars(\E resp \in OneToken(req.url) : SendRequest(resp, EmptyJar))
    /\ WF_vars(\E resp \in OneToken(req.url) : PostCredentials(resp, EmptyJar))
    /\ WF_vars(\E resp \in OneToken(req.url) : PostOtp(resp, EmptyJar))
    /\ WF_vars(\E salt \in UniformSalts : SaveBegin(salt))
    /\ WF_vars(SaveWrite)
    /\ WF_vars(SaveCommit)

\* one user, a server that sets no cookie
NextLive ==
    \/ \E path \in {None, CookiesPath} : Construct(UserPassword, UserTotp, path)
    \/ Exit
    \/ \E request \in Requests : RequestCall(request)
    \/ \E resp \in OneToken(req.url) : SendRequest(resp, EmptyJar)
    \/ \E resp \in OneToken(req.url) : PostCredentials(resp, EmptyJar)
    \/ \E resp \in OneToken(req.url) : PostOtp(resp, EmptyJar)
    \/ \E salt \in UniformSalts : SaveBegin(salt)
    \/ SaveWrite
    \/ SaveCommit

\* a server that answers every request; it redirects the original request
\* of one call to sign-in at most MaxSignIns times
SpecLive == Init /\ [][NextLive]_vars /\ Fairness

\* any credentials, a server that answers every request in session, and a
\* cookie file that can be damaged between two runs
NextStore ==
    \/ \E pw \in Passwords, totp \in TotpSecrets, path \in {None, CookiesPath} :
          Construct(pw, totp, path)
    \/ Exit
    \/ \E i \in 1..(SALTBYTES + 1 + 2 * Cardinality(Names)) : Tamper(i)
    \/ \E request \in Requests : RequestCall(request)
    \/ \E resp \in DirectResponses(req.url) \cap OneToken(req.url), setc \in Jars :
          SendRequest(resp, setc)
    \/ \E salt \in Salts : SaveBegin(salt)
    \/ SaveWrite
    \/ SaveCommit

SpecStore == Init /\ [][NextStore]_vars


\* the pages whose body holds one child at most
SmallBodies == {body \in Bodies : Len(body.contents) <= 1}

\* one user who calls the public operations, any server that sets no cookie
NextOps ==
    \/ \E path \in {None, CookiesPath} : Construct(UserPassword, UserTotp, path)
    \/ Exit
    \/ login
    \/ list_roles
    \/ \E name \in RoleNames : create_role(name)
    \/ \E id_ \in RoleIds : delete_role(id_)
    \/ \E id_ \in RoleIds : get_role_credentials(id_)
    \/ get_csrf_token_return
    \/ login_return
    \/ list_roles_return
    \/ \E data \in JsonBodies : create_role_return(data)
    \/ delete_role_return
    \/ \E body \in SmallBodies : get_role_credentials_return(body)
    \/ \E resp \in Served(req.url), setc \in {EmptyJar} : SendRequest(resp, setc)
    \/ \E resp \in Served(req.url), setc \in {EmptyJar} : PostCredentials(resp, setc)
    \/ \E resp \in Served(req.url), setc \in {EmptyJar} : PostOtp(resp, setc)
    \/ \E salt \in UniformSalts : SaveBegin(salt)
    \/ SaveWrite
    \/ SaveCommit

SpecOps == Init /\ [][NextOps]_vars

\* one user who reads role credentials, a server that answers in session
\* with any page
NextPage ==
    \/ \E path \in {None, CookiesPath} : Construct(UserPassword, UserTotp, path)
    \/ Exit
    \/ \E id_ \in RoleIds : get_role_credentials(id_)
    \/ \E resp \in DirectResponses(req.url) : SendRequest(resp, EmptyJar)
    \/ \E salt \in UniformSalts : SaveBegin(salt)
    \/ SaveWrite
    \/ SaveCommit
    \/ \E body \in Bodies : get_role_credentials_return(body)

SpecPage == Init /\ [][NextPage]_vars


---------------------------------------------------------------------------
(* Properties of _request, checked under Spec *)

\* the history entry of a response that raise_for_status lets through
Landed(e, op, url) == e.op = op /\ e.url = url /\ e.status < 400

Writes == {i \in 1..Len(log) : log[i].op = "write"}

\* (a) the server answers the original request directly
AnsweredDirectly ==
    /\ Len(log) >= 1
    /\ Landed(log[1], "request", req.url)

\* (b) the server redirects once to sign-in, accepts both sign-in steps and
\* answers the request sent again
AnsweredAfterSignIn ==
    /\ Len(log) >= 4
    /\ Landed(log[1], "request", SIGNIN_URL)
    /\ log[2].op = "credentials"
    /\ log[3].op = "otp"
    /\ Landed(log[4], "request", req.url)

AnsweredLen == IF AnsweredDirectly THEN 1 ELSE 4

\* C1: with a cookies path, when the server answers the original request
\* directly at the requested URL, or redirects once to sign-in, accepts the
\* two sign-in steps and answers the request sent again, _request raises
\* nothing, goes on to save the cookies and returns that response; the
\* cookie file is written exactly once, after that response and before the
\* return.
C1_SuccessSavesOnce ==
    (proc = "up" /\ HasPathSet /\ (AnsweredDirectly \/ AnsweredAfterSignIn)) =>
        /\ pc \in {"save", "write", "returned"}
        /\ err = NoError
        /\ r.url = req.url /\ r.status = log[AnsweredLen].status
        /\ pc \in {"save", "write"} => Len(log) = AnsweredLen /\ Writes = {}
        /\ pc = "returned" =>
              /\ ret = r
              /\ Len(log) = AnsweredLen + 1
              /\ Writes = {AnsweredLen + 1}
              /\ file = [exists |-> TRUE, data |-> xblob]

C1_Witness ==
    /\ pc = "returned"
    /\ HasPathSet
    /\ AnsweredAfterSignIn
    /\ file.exists

\* C2: every write of the cookie file by _request comes directly after a
\* response to the original request whose final URL is the requested URL;
\* _save_cookies is entered only from there, never from the credentials POST
\* or the OTP POST, also when the OTP POST lands on the requested URL; and
\* the file changes only in such a write.
C2_WriteOnlyInSession ==
    /\ [](/\ \A i \in Writes : i > 1 /\ Landed(log[i - 1], "request", req.url)
          /\ pc \in {"save", "write"} =>
                Len(log) >= 1 /\ Landed(log[Len(log)], "request", req.url))
    /\ [][file' # file => log' = Append(log, WriteEvent)]_vars

C2_Witness ==
    /\ Writes # {}
    /\ \E i \in 1..Len(log) : Landed(log[i], "otp", req.url)

\* C3: a response to the original request whose final URL is neither the
\* requested URL nor the sign-in URL makes _request raise the unexpected
\* redirect error naming that URL; it is the last HTTP exchange of the call,
\* and the cookie file is not written.
UnexpectedAt(i) ==
    /\ log[i].op = "request"
    /\ log[i].status < 400
    /\ log[i].url # req.url
    /\ log[i].url # SIGNIN_URL

C3_UnexpectedRedirect ==
    /\ [](\A i \in 1..Len(log) : UnexpectedAt(i) =>
            /\ i = Len(log)
            /\ pc = "raised"
            /\ err = Error("RuntimeError", "Unexpected redirect to", log[i].url)
            /\ ret = NoResponse
            /\ Writes = {})
    /\ [][(Len(log) >= 1 /\ UnexpectedAt(Len(log))) =>
            (file' = file /\ (log' = log \/ log' = <<>>))]_vars

C3_Witness ==
    /\ Len(log) = 4
    /\ UnexpectedAt(4)
    /\ log[4].url = SIGNIN_URL \o <<"?", "step=otp">>
    /\ file.exists

\* C4 as claimed: the sign-in flow is run at most once in a call.
C4_AtMostOneSignIn ==
    /\ SignIns <= 1
    /\ Cardinality({i \in 1..Len(log) : log[i].op = "otp"}) <= 1

\* C4, amended: within a call the sign-in flow is run once for each response
\* to the original request that lands on the sign-in URL, and only then: a
\* credentials POST directly follows such a response, an OTP POST directly
\* follows a credentials POST that landed on the two-factor page, and the
\* original request is sent again only directly after an OTP POST that landed
\* on the formations URL or the requested URL.  The code puts no bound on the
\* number of these cycles.
C4_OneSignInPerRedirect ==
    \A i \in 1..Len(log) :
        /\ log[i].op = "credentials" =>
              i > 1 /\ Landed(log[i - 1], "request", SIGNIN_URL)
        /\ log[i].op = "otp" =>
              /\ i > 1
              /\ log[i - 1].op = "credentials"
              /\ log[i - 1].status < 400
              /\ startswith(log[i - 1].url, SIGNIN_URL \o <<"?">>)
        /\ (log[i].op = "request" /\ i > 1) =>
              /\ log[i - 1].op = "otp"
              /\ log[i - 1].status < 400
              /\ log[i - 1].url \in {FORMATIONS_URL, req.url}

C4_Witness ==
    /\ SignIns = 2
    /\ Cardinality({i \in 1..Len(log) : log[i].op = "otp"}) = 2
    /\ pc = "returned"

\* the credentials POST was answered with a non-error status and a body
\* without the two-factor widget
NoWidgetAnswer ==
    /\ Len(log) >= 1
    /\ log[Len(log)].op = "credentials"
    /\ log[Len(log)].status < 400
    /\ ~r.widget

\* C5 as claimed: such a response ends the request with the error of an
\* unexpected redirect (a RuntimeError), and no OTP is submitted.
C5_NoWidgetIsUnexpectedRedirect ==
    NoWidgetAnswer =>
        /\ pc = "raised"
        /\ err.kind = "RuntimeError"
        /\ \A i \in 1..Len(log) : log[i].op = "otp" => i < Len(log) - 1

\* C5, amended: after the credentials POST, a response with a non-error
\* status that lacks the two-factor widget ends the request with an error
\* and no OTP is submitted; the error is the unexpected-redirect RuntimeError
\* only when the final URL does not start with the sign-in URL and "?", and
\* is an assertion failure, a different kind of error, when it does.
C5_NoWidgetRaises ==
    NoWidgetAnswer =>
        /\ pc = "raised"
        /\ ret = NoResponse
        /\ log[Len(log) - 1].op = "request"
        /\ \A i \in 1..Len(log) : log[i].op = "otp" => i < Len(log) - 1
        /\ err = IF startswith(r.url, SIGNIN_URL \o <<"?">>)
                 THEN Error("AssertionError", "TwoFAWidget", <<>>)
                 ELSE Error("RuntimeError",
                            "Unexpected redirect from sign-in #1 to", r.url)

C5_Witness ==
    /\ NoWidgetAnswer
    /\ err.kind = "AssertionError"
    /\ r.meta # NoMeta

\* C6: a response with an error status to the original request, to the
\* credentials POST or to the OTP POST makes _request raise the HTTP error;
\* it is the last HTTP exchange of the call, nothing is returned, and the
\* cookie file is not written.
C6_HttpErrorAborts ==
    /\ [](\A i \in 1..Len(log) :
            (log[i].op \in {"request", "credentials", "otp"}
                /\ log[i].status >= 400) =>
            /\ i = Len(log)
            /\ pc = "raised"
            /\ err = Error("HTTPError", "status", log[i].url)
            /\ ret = NoResponse
            /\ Writes = {})
    /\ [][(Len(log) >= 1 /\ log[Len(log)].status >= 400) =>
            (file' = file /\ (log' = log \/ log' = <<>>))]_vars

C6_Witness ==
    /\ Len(log) = 3
    /\ log[3].op = "otp"
    /\ log[3].status >= 400
    /\ err.kind = "HTTPError"
    /\ file.exists

---------------------------------------------------------------------------
(* Properties of the cookie cache, checked under SpecStore *)

\* __init__ has just run (and raised, when proc = "failed")
Constructed == proc \in {"up", "failed"} /\ pc = "idle"

\* the file at cookies_path is the one the last completed _save_cookies
\* wrote, untouched
FileAsSaved ==
    /\ HasPathSet
    /\ saved.done
    /\ file = [exists |-> TRUE, data |-> saved.xblob]

\* C7 as claimed: loading a saved file with any other pair of credentials
\* fails with a decryption error and yields no jar.
C7_OtherPairFails ==
    (/\ Constructed
     /\ FileAsSaved
     /\ <<password, totp_secret>> # <<saved.password, saved.totp_secret>>) =>
        (proc = "failed" /\ err.kind = "CryptoError")

\* C8: a client constructed with (P, T) on a file that _save_cookies wrote
\* with (P, T) and jar J is constructed without error and its session jar
\* is J.
C8_RoundTrip ==
    (/\ Constructed
     /\ FileAsSaved
     /\ password = saved.password
     /\ totp_secret = saved.totp_secret) =>
        (proc = "up" /\ err = NoError /\ cookies = saved.jar)

C8_Witness ==
    /\ Constructed
    /\ FileAsSaved
    /\ password = saved.password
    /\ totp_secret = saved.totp_secret
    /\ proc = "up"
    /\ cookies # EmptyJar

\* the file at cookies_path is a saved file with a byte flipped
FileCorrupted ==
    /\ HasPathSet
    /\ saved.done
    /\ file.exists
    /\ file.data # saved.xblob

\* the client's password and TOTP secret give other secret bytes than those
\* the file was saved with
OtherSecret == password \o totp_secret # saved.password \o saved.totp_secret

\* C9: with a cookies path and no file the client is constructed without
\* error and with an empty jar; with a file that does not verify (a byte
\* flipped, or credentials with other secret bytes) __init__ raises the
\* decryption error: there is no client and no session, no HTTP request is
\* sent, and the process can only end.
C9_LoadFailsClosed ==
    /\ [](/\ (Constructed /\ HasPathSet /\ ~file.exists) =>
                (proc = "up" /\ err = NoError /\ cookies = EmptyJar)
          /\ (Constructed /\ (FileCorrupted \/ (FileAsSaved /\ OtherSecret))) =>
                (proc = "failed" /\ err.kind = "CryptoError")
          /\ proc = "failed" =>
                (cookies = EmptyJar /\ log = <<>> /\ ret = NoResponse))
    /\ [][proc = "failed" => (proc' = "down" /\ log' = <<>> /\ file' = file)]_vars

C9_Witness ==
    /\ proc = "failed"
    /\ FileCorrupted
    /\ ~OtherSecret
    /\ saved.jar # EmptyJar

\* every complete salt || ciphertext blob
CompleteBlobs ==
    {make_xblob(pw, totp, jar, salt) :
        pw \in Passwords, totp \in TotpSecrets, jar \in Jars, salt \in Salts}

\* C10: the file at cookies_path is absent or a complete blob at every point
\* of _save_cookies, whether the process goes on or dies there: while no byte
\* was flipped from outside it is the blob of the last completed
\* _save_cookies, and _save_cookies changes it only by replacing it, in one
\* step, with the complete new blob.
C10_AtomicReplace ==
    /\ [](/\ file.exists => saved.done
          /\ (file.exists /\ flips = 0) =>
                (file.data = saved.xblob /\ file.data \in CompleteBlobs))
    /\ [][file' # file =>
            \/ flips' = flips + 1
            \/ /\ pc = "write"
               /\ xblob \in CompleteBlobs
               /\ file' = [exists |-> TRUE, data |-> xblob]]_vars

C10_Witness ==
    /\ pc = "write"
    /\ file.exists
    /\ file.data # xblob
    /\ Len(tmp.data) > 0
    /\ Len(tmp.data) < Len(xblob)

---------------------------------------------------------------------------
(* Properties of the public operations, checked under SpecOps *)

\* a request that changes the roles of a formation
Mutating(rq) == rq.method \in {"post", "delete"}

\* the requests of the current call of _request that went out and change
\* the roles
MutatingSent ==
    {i \in 1..Len(log) : log[i].op = "request" /\ Mutating(log[i].sent)}

\* the step in which _get_csrf_token returns a token to its operation
TokenFetched == operation.stage = "csrf" /\ operation'.stage = "main"

\* C11: in create_role and delete_role the POST or DELETE goes out only
\* after the _get_csrf_token of the same operation has returned a token, and
\* its X-CSRF-Token header is that token; an operation starts without a
\* token, whatever the operations before it fetched; and when the fetch
\* fails (in _request or for want of the meta tag) nothing mutating is sent.
C11_TokenBeforeMutation ==
    /\ [](/\ (Mutating(req) \/ MutatingSent # {}) =>
                /\ operation.name \in {"create_role", "delete_role"}
                /\ operation.stage \in {"main", "done", "failed"}
                /\ operation.token \in Tokens
                /\ req.headers.csrf = operation.token
          /\ \A i \in MutatingSent : log[i].sent.headers.csrf = operation.token
          /\ operation.stage = "csrf" => operation.token = NoMeta
          /\ (operation.stage = "failed" /\ operation.token = NoMeta) =>
                (~Mutating(req) /\ MutatingSent = {}))
    /\ [][/\ TokenFetched =>
                /\ pc = "returned"
                /\ ret.meta \in Tokens
                /\ operation.name \in {"create_role", "delete_role"} =>
                      /\ Mutating(req')
                      /\ req'.headers.csrf = ret.meta
                      /\ operation'.token = ret.meta
          /\ operation.token # operation'.token =>
                (TokenFetched \/ operation'.token = NoMeta)]_vars

C11_Witness ==
    /\ operation.name = "delete_role"
    /\ operation.stage = "done"
    /\ operation.token = "t2"
    /\ MutatingSent # {}
    /\ SignIns = 1
    /\ HasPathSet

\* create_role has read a JSON body whose id is "conflict"
Conflict ==
    /\ operation.name = "create_role"
    /\ operation.json.id = JsonStr("conflict")

\* C12: a create_role that reads the id "conflict" from the response that
\* _request returned raises the role-already-exists RuntimeError and returns
\* nothing; from the moment it holds that response nothing more happens: no
\* HTTP exchange, no write of the cookie file (the one save _request makes
\* before it returns a response lies before), until the exception has left
\* the operation.  create_role returns only a str id other than "conflict",
\* taken from a body whose name is the requested name.
C12_ConflictRaises ==
    /\ [](/\ Conflict =>
                /\ operation.stage = "failed"
                /\ operation.err = Error("RuntimeError", "already exists", <<>>)
                /\ operation.result = None
                /\ pc = "returned"
          /\ (operation.name = "create_role" /\ operation.stage = "done") =>
                /\ operation.json.id.t = "str"
                /\ operation.json.id.v # "conflict"
                /\ operation.json.name = JsonStr(operation.arg)
                /\ operation.result = <<operation.json.id.v>>)
    /\ [][/\ Conflict' =>
                /\ log' = log
                /\ file' = file
                /\ tmp' = tmp
                /\ cookies' = cookies
          /\ Conflict =>
                /\ proc' = "down"
                /\ file' = file
                /\ log' = <<>>]_vars

C12_Witness ==
    /\ Conflict
    /\ operation.json.name = JsonStr(operation.arg)
    /\ HasPathSet
    /\ Writes # {}
    /\ file.exists

\* the body get_role_credentials has read holds exactly one child, a text
OneTextNode ==
    /\ operation.body.found
    /\ Len(operation.body.contents) = 1
    /\ operation.body.contents[1].kind = "text"

\* (checked under SpecPage)
\* C13: get_role_credentials returns the trimmed text when the body of the
\* page has exactly one child and that child is a text node; for every other
\* body (no child, more than one child, one child that is not a text node)
\* it raises the assertion error and returns no string.
C13_SingleTextNode ==
    (operation.name = "get_role_credentials"
        /\ operation.stage \in {"done", "failed"}) =>
        IF OneTextNode
        THEN /\ operation.stage = "done"
             /\ operation.result = strip(operation.body.contents[1].s)
        ELSE /\ operation.stage = "failed"
             /\ operation.err.kind = "AssertionError"
             /\ operation.result = None

---------------------------------------------------------------------------
(* Properties of the sign-in flow of _request, checked under Spec *)

\* the step sends the exchange kind: the history grows by one such entry
Sends(kind) ==
    /\ Len(log') = Len(log) + 1
    /\ log'[Len(log')].op = kind

\* the last response r is a two-factor challenge: on the sign-in URL with
\* a query string, with the widget and the csrf-token meta tag
ChallengePage ==
    /\ r.status < 400
    /\ Len(r.url) > Len(SIGNIN_URL)
    /\ SubSeq(r.url, 1, Len(SIGNIN_URL)) = SIGNIN_URL
    /\ r.url[Len(SIGNIN_URL) + 1] = "?"
    /\ r.widget
    /\ r.meta \in Tokens

\* C14: inside _request the sign-in runs credentials POST, OTP POST, retry,
\* in this order and each once: the credentials POST directly follows a
\* response to the original request on the sign-in URL; the OTP POST
\* directly follows a credentials POST whose response is on the sign-in URL
\* with a query string and holds the two-factor widget and the csrf-token
\* meta tag; the original request is sent again only directly after an OTP
\* POST that ended on the formations URL or on the requested URL.
C14_SignInOrder ==
    /\ [](/\ \A i \in 1..Len(log) :
                /\ log[i].op = "credentials" =>
                      i > 1 /\ Landed(log[i - 1], "request", SIGNIN_URL)
                /\ log[i].op = "otp" =>
                      /\ i > 1
                      /\ log[i - 1].op = "credentials"
                      /\ log[i - 1].status < 400
                      /\ startswith(log[i - 1].url, SIGNIN_URL \o <<"?">>)
                /\ (log[i].op = "request" /\ i > 1) =>
                      \/ Landed(log[i - 1], "otp", FORMATIONS_URL)
                      \/ Landed(log[i - 1], "otp", req.url)
          /\ pc = "otp" => (ChallengePage /\ log[Len(log)].op = "credentials")
          /\ (pc = "loop" /\ log # <<>>) => log[Len(log)].op = "otp"
          /\ pc = "credentials" => log[Len(log)].op = "request")
    /\ [][/\ Sends("otp") => (pc = "otp" /\ ChallengePage)
          /\ Sends("credentials") => pc = "credentials"
          /\ Sends("request") => pc = "loop"]_vars

C14_Witness ==
    /\ pc = "returned"
    /\ Len(log) >= 4
    /\ Landed(log[1], "request", SIGNIN_URL)
    /\ log[2].op = "credentials"
    /\ Landed(log[3], "otp", req.url)
    /\ req.url # FORMATIONS_URL
    /\ Landed(log[4], "request", req.url)

\* the last entry of the history
Last == log[Len(log)]

\* the sign-in flow has met a failure: the sign-in page has no form, the
\* credentials POST ended off the challenge URL or on a page without the
\* widget or without the csrf token, or the OTP POST ended on a URL that is
\* neither the formations URL nor the requested URL
SignInFailed ==
    /\ proc = "up"
    /\ log # <<>>
    /\ Last.status < 400
    /\ \/ Last.op = "request" /\ Last.url = SIGNIN_URL /\ ~r.form
       \/ /\ Last.op = "credentials"
          /\ \/ ~startswith(Last.url, SIGNIN_URL \o <<"?">>)
             \/ ~r.widget
             \/ r.meta = NoMeta
       \/ Last.op = "otp" /\ Last.url \notin {FORMATIONS_URL, req.url}

\* C15: a failure inside the sign-in flow ends the call: _request raises at
\* that exchange, returns nothing, has written no cookie file in this call,
\* and sends nothing afterwards (no credentials POST, no OTP POST, no retry
\* of the original request).
C15_SignInFailureIsTerminal ==
    /\ [](SignInFailed =>
            /\ pc = "raised"
            /\ err.kind \in {"AssertionError", "AttributeError", "RuntimeError"}
            /\ ret = NoResponse
            /\ Writes = {}
            /\ tmp = NoFile)
    /\ [][SignInFailed => (proc' = "down" /\ log' = <<>> /\ file' = file)]_vars

C15_Witness ==
    /\ SignInFailed
    /\ HasPathSet
    /\ Last.op = "credentials"
    /\ Last.url = OTHER_URL
    /\ r.widget
    /\ r.meta \in Tokens

---------------------------------------------------------------------------
(* Termination of _request, checked under SpecLive *)

\* a call of _request is in progress
Calling == proc = "up" /\ pc \in {"loop", "credentials", "otp", "save", "write"}

\* the call is over: _request returned or raised, or the process ended
CallOver == proc # "up" \/ pc \in {"returned", "raised"}

\* the step in which the server redirects the original request to the
\* sign-in page
Redirected ==
    /\ Sends("request")
    /\ log'[Len(log')].status < 400
    /\ log'[Len(log')].url = SIGNIN_URL
    /\ r'.form

\* the steps in which the server accepts the credentials and the OTP
CredentialsAccepted ==
    /\ Sends("credentials")
    /\ log'[Len(log')].status < 400
    /\ startswith(log'[Len(log')].url, SIGNIN_URL \o <<"?">>)
    /\ r'.widget
    /\ r'.meta \in Tokens

OtpAccepted ==
    /\ Sends("otp")
    /\ log'[Len(log')].status < 400
    /\ log'[Len(log')].url \in {FORMATIONS_URL, req.url}

\* C16: with a server that answers every step and redirects the original
\* request of a call to sign-in at most MaxSignIns times, every call of
\* _request returns or raises (or the process ends).  And a redirect to
\* sign-in, an accepted credentials POST and an accepted OTP POST never end
\* the call: each leads to the next exchange of the cycle, the accepted OTP
\* back to the original request, so that with a server that always
\* redirects and always accepts the call goes round for ever; the call ends
\* only by a response that is none of those.
C16_Termination ==
    /\ Calling ~> CallOver
    /\ [][/\ Redirected => (pc' = "credentials" /\ Calling')
          /\ CredentialsAccepted => (pc' = "otp" /\ Calling')
          /\ OtpAccepted => (pc' = "loop" /\ Calling')
          /\ (Calling /\ proc' = "up" /\ pc' \in {"raised", "save"}) =>
                /\ log' # log
                /\ ~(Redirected \/ CredentialsAccepted \/ OtpAccepted)]_vars

C16_Witness ==
    /\ pc = "loop"
    /\ SignIns = MaxSignIns
    /\ Last.op = "otp"
    /\ HasPathSet

---------------------------------------------------------------------------
(* The retried request, checked under Spec *)

\* the original request of the call as it went out, each time
RequestsSent == {i \in 1..Len(log) : log[i].op = "request"}

\* C17: every time _request sends the original request, the first time and
\* again after each sign-in, it sends the method, URL, headers, params and
\* JSON body it was called with: the X-CSRF-Token of a retried POST or
\* DELETE is the token fetched before the re-authentication.  The cookies
\* of the session are not part of these arguments.
C17_RetryUnchanged ==
    /\ [](\A i \in RequestsSent :
            /\ log[i].sent = req
            /\ log[i].sent.method = req.method
            /\ log[i].sent.url = req.url
            /\ log[i].sent.headers = req.headers
            /\ log[i].sent.params = req.params
            /\ log[i].sent.json = req.json
            /\ log[i].sent = log[1].sent)
    /\ [][(Calling /\ Calling') => req' = req]_vars

\* a POST sent again with its token and its JSON body, by a client that
\* started without cookies and holds cookies now
C17_Witness ==
    /\ ~HasPathSet
    /\ cookies # EmptyJar
    /\ Cardinality(RequestsSent) = 2
    /\ SignIns = 1
    /\ log[Len(log)].op = "request"
    /\ log[Len(log)].sent.method = "post"
    /\ log[Len(log)].sent.headers.csrf = "t1"
    /\ log[Len(log)].sent.json = <<"role_name", "alice">>

---------------------------------------------------------------------------
(* The client without a cookies path, checked under Spec *)

\* where _request goes after an exchange, from the response alone
Outcome(kind, resp, url) ==
    IF resp.status >= 400 THEN "raised"
    ELSE CASE kind = "request" ->
                 IF resp.url = url THEN "save"
                 ELSE IF resp.url = SIGNIN_URL /\ resp.form THEN "credentials"
                 ELSE "raised"
           [] kind = "credentials" ->
                 IF /\ startswith(resp.url, SIGNIN_URL \o <<"?">>)
                    /\ resp.widget
                    /\ resp.meta \in Tokens
                 THEN "otp" ELSE "raised"
           [] kind = "otp" ->
                 IF resp.url \in {FORMATIONS_URL, url} THEN "loop" ELSE "raised"

NoPath == proc = "up" /\ cookies_path = None

\* C18: a client constructed without a cookies path prefix reads no cookie
\* file (it starts with an empty jar and construction cannot fail, whatever
\* file an earlier client left) and writes none (no temporary file, no
\* change of the file, no save recorded), whatever it is asked to do.  Its
\* requests and sign-ins go as with a prefix: after every exchange, with or
\* without a path, _request goes where the response alone decides, and it
\* returns the response of a request answered at the requested URL; only
\* the write before the return is missing.
C18_NoPathNoFile ==
    /\ [](/\ NoPath =>
                /\ tmp = NoFile
                /\ xblob = <<>>
                /\ pc # "write"
                /\ Writes = {}
                /\ (pc = "idle" => cookies = EmptyJar)
                /\ (AnsweredDirectly \/ AnsweredAfterSignIn) =>
                      /\ pc \in {"save", "returned"}
                      /\ err = NoError
                      /\ pc = "returned" => (ret = r /\ Len(log) = AnsweredLen)
          /\ (proc = "failed") => cookies_path # None)
    /\ [][/\ (NoPath \/ (proc' = "up" /\ cookies_path' = None)) =>
                (file' = file /\ tmp' = tmp /\ saved' = saved)
          /\ \A kind \in {"request", "credentials", "otp"} :
                Sends(kind) => pc' = Outcome(kind, r', req.url)
          /\ (pc = "save" /\ pc' # "save" /\ proc' = "up") =>
                pc' = IF cookies_path = None THEN "returned" ELSE "write"]_vars

C18_Witness ==
    /\ NoPath
    /\ file.exists
    /\ saved.jar # EmptyJar
    /\ pc = "returned"
    /\ AnsweredAfterSignIn
    /\ cookies = EmptyJar

---------------------------------------------------------------------------
(* The logged_in flag, checked under SpecOps *)

\* C19: logged_in is False in every state: __init__ sets it to False and no
\* operation assigns it, not even a login() that returns.
C19_NeverLoggedIn ==
    /\ [](logged_in = FALSE)
    /\ [][logged_in' = logged_in]_vars

C19_Witness ==
    /\ operation.name = "login"
    /\ operation.stage = "done"
    /\ SignIns = 1
    /\ Landed(log[3], "otp", FORMATIONS_URL)
    /\ ~logged_in

====
